---- MODULE Spec2Model ----
(***************************************************************************)
(* Model of src/src/kvparser.rs: the parallel key-value (dpkg control      *)
(* file) parser.  Parser::parse spawns num_cpus workers, scans the file    *)
(* for double line breaks, pushes one Process(start, end) task per         *)
(* detected boundary, pushes one Quit per worker and joins the workers.    *)
(* ChunkWorker::run steals tasks, folds and splits the chunk's lines and   *)
(* hands the resulting map to Parsable::new.                               *)
(*                                                                         *)
(* A byte is a one-character string.  A file, a chunk and a line are       *)
(* sequences of bytes.  A field map (HashMap<String, String>) is a set of  *)
(* <<key, value>> pairs with pairwise distinct keys.                       *)
(***************************************************************************)
EXTENDS Integers, Sequences, FiniteSets, TLC

VARIABLES
    file,          \* the bytes of the parsed file (Mmap of self.file)
    factory,       \* which Parsable implementation the caller supplied
    ncpus,         \* num_cpus::get()
    pc,            \* position of the thread running Parser::parse
    last_is_nl,    \* parse: let mut last_is_nl
    last_nl_pos,   \* parse: let mut last_nl_pos
    cur_position,  \* parse: let mut cur_position
    spawned,       \* workers.len()
    workq,         \* every task pushed to the deque so far, in push order
    top,           \* number of tasks already stolen from the deque
    quits,         \* iterations done of the Quit loop
    joined,        \* iterations done of the join loop
    models,        \* parse: let mut models
    wpc,           \* position of each worker thread
    wtop,          \* the deque top a worker read at the start of its steal
                   \* (0 outside a steal)
    wmodels,       \* run: let mut models, one per worker
    taken,         \* history: for each task index, the workers that got it
    chunk,         \* field extractor: the raw chunk
    stage,         \* field extractor: "raw", "folded", "mapped" or "panicked"
    fields,        \* field extractor: the LinkedList<String> of parse_chunk
    fields_map     \* field extractor: the HashMap of parse_fields

vars == <<file, factory, ncpus, pc, last_is_nl, last_nl_pos, cur_position,
          spawned, workq, top, quits, joined, models, wpc, wtop, wmodels,
          taken, chunk, stage, fields, fields_map>>

parservars == <<file, factory, ncpus, pc, last_is_nl, last_nl_pos,
                cur_position, spawned, workq, top, quits, joined, models,
                wpc, wtop, wmodels, taken>>

extractorvars == <<chunk, stage, fields, fields_map>>

----------------------------------------------------------------------------
(* Bounds of the model. *)

MaxWorkers == 2
MaxFileLines == 3
MaxFairLines == 2
MaxChunkLines == 3

----------------------------------------------------------------------------
(* Bytes. *)

NL == "\n"
CR == "\r"
SP == " "
TAB == "\t"
COLON == ":"
\* a byte that is never part of valid UTF-8 (0xFF)
BAD == "<FF>"

\* char::is_whitespace, restricted to the bytes of the model
Whitespace == {SP, TAB, NL, CR}

RECURSIVE Concat(_)
\* the concatenation of a sequence of byte sequences
Concat(ss) ==
    IF ss = <<>> THEN <<>> ELSE Head(ss) \o Concat(Tail(ss))

RECURSIVE SeqsUpTo(_, _)
\* the sequences over S of length at most n
SeqsUpTo(S, n) ==
    IF n = 0 THEN {<<>>}
    ELSE LET shorter == SeqsUpTo(S, n - 1)
         IN  shorter \cup {Append(s, x) : s \in shorter, x \in S}

Range(s) == {s[i] : i \in 1..Len(s)}

\* the number of positions of s that hold x
Count(x, s) == Cardinality({i \in 1..Len(s) : s[i] = x})

\* two lists hold the same elements the same number of times
SameMultiset(s, t) ==
    \A x \in Range(s) \cup Range(t) : Count(x, s) = Count(x, t)

----------------------------------------------------------------------------
(* The field extractor: ChunkWorker::parse_chunk and parse_fields. *)

\* the position of the first x in s, 0 when s holds no x (str::find)
Find(s, x) ==
    IF \E i \in 1..Len(s) : s[i] = x
    THEN CHOOSE i \in 1..Len(s) : s[i] = x /\ \A j \in 1..(i - 1) : s[j] # x
    ELSE 0

\* BufRead::lines removes the "\n" that ended a line and a "\r" before it
StripCR(line) ==
    IF line # <<>> /\ line[Len(line)] = CR
    THEN SubSeq(line, 1, Len(line) - 1)
    ELSE line

RECURSIVE Lines(_)
\* chunk.lines(): the physical lines of a chunk; a last line that no "\n"
\* ends is a line as well, and nothing follows a final "\n"
Lines(bytes) ==
    IF bytes = <<>> THEN <<>>
    ELSE LET i == Find(bytes, NL)
         IN  IF i = 0 THEN <<bytes>>
             ELSE <<StripCR(SubSeq(bytes, 1, i - 1))>>
                      \o Lines(SubSeq(bytes, i + 1, Len(bytes)))

\* line.unwrap() panics on a line that is not valid UTF-8
LinePanics(line) == BAD \in Range(line)

\* parse_chunk panics as soon as it reaches such a line
ChunkPanics(bytes) == \E i \in 1..Len(Lines(bytes)) : LinePanics(Lines(bytes)[i])

\* (mutant) a continuation line is joined to the previous line by its own
\* leading space, without a line break
FoldLineNoBreak(list, unwrapped_line) ==
    IF unwrapped_line = <<>> THEN list
    ELSE IF unwrapped_line[1] = SP /\ list # <<>>
         THEN Append(SubSeq(list, 1, Len(list) - 1),
                     list[Len(list)] \o unwrapped_line)
         ELSE Append(list, unwrapped_line)

\* (mutant) a line that starts with a tab is a continuation line as well
FoldLineTabToo(list, unwrapped_line) ==
    IF unwrapped_line = <<>> THEN list
    ELSE IF unwrapped_line[1] \in {SP, TAB} /\ list # <<>>
         THEN Append(SubSeq(list, 1, Len(list) - 1),
                     list[Len(list)] \o <<NL>> \o unwrapped_line)
         ELSE Append(list, unwrapped_line)

\* (mutant) a line that starts with a space and has no line before it to
\* be folded into is dropped
FoldLineDropsOrphan(list, unwrapped_line) ==
    IF unwrapped_line = <<>> THEN list
    ELSE IF unwrapped_line[1] = SP
         THEN IF list = <<>> THEN list
              ELSE Append(SubSeq(list, 1, Len(list) - 1),
                          list[Len(list)] \o <<NL>> \o unwrapped_line)
         ELSE Append(list, unwrapped_line)

\* one iteration of the loop of parse_chunk
FoldLine(list, unwrapped_line) ==
    IF unwrapped_line = <<>> THEN list
    ELSE IF unwrapped_line[1] = SP /\ list # <<>>
         THEN LET prev_line == list[Len(list)]
              IN  Append(SubSeq(list, 1, Len(list) - 1),
                         prev_line \o <<NL>> \o unwrapped_line)
         ELSE Append(list, unwrapped_line)

RECURSIVE FoldLines(_, _)
FoldLines(list, lines) ==
    IF lines = <<>> THEN list
    ELSE FoldLines(FoldLine(list, Head(lines)), Tail(lines))

\* the logical lines of a chunk
parse_chunk(bytes) == FoldLines(<<>>, Lines(bytes))

RECURSIVE TrimStart(_)
TrimStart(s) ==
    IF s # <<>> /\ s[1] \in Whitespace THEN TrimStart(Tail(s)) ELSE s

RECURSIVE TrimEnd(_)
TrimEnd(s) ==
    IF s # <<>> /\ s[Len(s)] \in Whitespace
    THEN TrimEnd(SubSeq(s, 1, Len(s) - 1))
    ELSE s

\* str::trim
Trim(s) == TrimEnd(TrimStart(s))

RECURSIVE TrimStartMatches(_, _)
\* str::trim_start_matches(c): removes every leading c
TrimStartMatches(s, c) ==
    IF s # <<>> /\ s[1] = c THEN TrimStartMatches(Tail(s), c) ELSE s

\* (mutant) the entry of a key the map has is kept
InsertIfAbsent(map, key, value) ==
    IF \E e \in map : e[1] = key THEN map ELSE map \cup {<<key, value>>}

\* HashMap::insert: the entry of key is replaced
Insert(map, key, value) ==
    {e \in map : e[1] # key} \cup {<<key, value>>}

\* (mutant) a line without a delimiter is inserted as a key without value
InsertFieldKeepsStray(map, field) ==
    LET delim_pos == Find(field, COLON)
    IN  IF delim_pos # 0
        THEN LET key == SubSeq(field, 1, delim_pos - 1)
                 value == SubSeq(field, delim_pos, Len(field))
             IN  Insert(map, Trim(key), Trim(TrimStartMatches(value, COLON)))
        ELSE Insert(map, Trim(field), <<>>)

\* one iteration of the loop of parse_fields
InsertField(map, field) ==
    LET delim_pos == Find(field, COLON)
    IN  IF delim_pos # 0
        THEN LET key == SubSeq(field, 1, delim_pos - 1)
                 value == SubSeq(field, delim_pos, Len(field))
             IN  Insert(map, Trim(key), Trim(TrimStartMatches(value, COLON)))
        ELSE map

RECURSIVE InsertFields(_, _)
InsertFields(map, list) ==
    IF list = <<>> THEN map
    ELSE InsertFields(InsertField(map, Head(list)), Tail(list))

\* the field map of a list of logical lines
parse_fields(list) == InsertFields({}, list)

\* the keys of a field map
Keys(map) == {e[1] : e \in map}

\* the value a field map holds for a key it has
Get(map, key) == (CHOOSE e \in map : e[1] = key)[2]

----------------------------------------------------------------------------
(* The caller's Parsable implementations.  An Output is the field map it  *)
(* was made from.                                                          *)

\* accepts every field map
AcceptAll == "AcceptAll"
\* accepts the field maps that have a key "A", declines the others
NeedsA == "NeedsA"

Factories == {AcceptAll, NeedsA}

\* Parsable::new returned Some
Accepts(f, key_values) ==
    f = AcceptAll \/ <<"A">> \in Keys(key_values)

----------------------------------------------------------------------------
(* The inputs. *)

\* each line followed by a line break
Terminated(lines) == Concat([i \in 1..Len(lines) |-> lines[i] \o <<NL>>])

\* the texts made of the given lines, the last one ended by a line break
\* or by the end of the text
Texts(lineset, n) ==
    LET full == {Terminated(ls) : ls \in SeqsUpTo(lineset, n)}
    IN  full \cup {SubSeq(t, 1, Len(t) - 1) : t \in full \ {<<>>}}

\* the lines of the parsed files
FileLineSet == {<<>>, <<"A", ":", "1">>, <<"B", ":", "2">>, <<BAD>>}

\* Parser::new fails on an empty file, so a Parser has a non-empty file
Files == {f \in Texts(FileLineSet, MaxFileLines) : Len(f) > 0}

\* the files of the runs checked under fair scheduling
FairFiles == {f \in Texts(FileLineSet, MaxFairLines) : Len(f) > 0}

\* the lines of the chunks given to the field extractor
ChunkLineSet ==
    { <<>>,
      <<"A", ":", " ", "1">>,
      <<"A", ":", " ", "2">>,
      <<"B", ":", "2">>,
      <<"A", ":", ":", "1">>,
      <<"s">>,
      <<" ", "x">>,
      <<" ", "C", ":", "3">>,
      <<TAB, "x">>,
      <<BAD>> }

Chunks == Texts(ChunkLineSet, MaxChunkLines)

----------------------------------------------------------------------------
(* Parser::parse and ChunkWorker::run. *)

Workers == 1..MaxWorkers

Process(start, end) == <<"Process", start, end>>
Quit == <<"Quit">>

\* (mutant) a line break as the first byte of the file is no boundary
ScanByteSkipsFirst(st, byte) ==
    LET cur == st.cur_position + 1
        nl == (byte = NL)
        boundary == nl /\ st.last_is_nl /\ cur > 1
    IN  [ last_is_nl |-> nl,
          last_nl_pos |-> IF boundary THEN cur ELSE st.last_nl_pos,
          cur_position |-> cur,
          pushed |-> IF boundary THEN <<Process(st.last_nl_pos, cur)>>
                     ELSE <<>> ]

\* one iteration of the scan loop of parse on the scanner's variables:
\* the new variables and the task pushed, if any
ScanByte(st, byte) ==
    LET cur == st.cur_position + 1
        nl == (byte = NL)
        boundary == nl /\ st.last_is_nl
    IN  [ last_is_nl |-> nl,
          last_nl_pos |-> IF boundary THEN cur ELSE st.last_nl_pos,
          cur_position |-> cur,
          pushed |-> IF boundary THEN <<Process(st.last_nl_pos, cur)>>
                     ELSE <<>> ]

\* the scanner's variables before the first byte
ScanStart == [last_is_nl |-> TRUE, last_nl_pos |-> 0, cur_position |-> 0,
              pushed |-> <<>>]

RECURSIVE ScanFrom(_, _, _)
\* the scan loop run over bytes: the final variables, pushed accumulated
ScanFrom(st, acc, bytes) ==
    IF bytes = <<>> THEN [st EXCEPT !.pushed = acc]
    ELSE LET nx == ScanByte(st, Head(bytes))
         IN  ScanFrom(nx, acc \o nx.pushed, Tail(bytes))

\* the Process tasks parse pushes for a file, in push order
Ranges(bytes) == ScanFrom(ScanStart, <<>>, bytes).pushed

\* self.file[start..end]
Slice(bytes, start, end) == SubSeq(bytes, start + 1, end)

\* the tasks still in the deque
InQueue == SubSeq(workq, top + 1, Len(workq))

\* the state when parse is called on a Parser of one of the files
ParserInit(files) ==
    /\ file \in files
    /\ factory \in Factories
    /\ ncpus \in Workers
    /\ pc = "spawn"
    /\ last_is_nl = TRUE
    /\ last_nl_pos = 0
    /\ cur_position = 0
    /\ spawned = 0
    /\ workq = <<>>
    /\ top = 0
    /\ quits = 0
    /\ joined = 0
    /\ models = <<>>
    /\ wpc = [w \in Workers |-> "unspawned"]
    /\ wtop = [w \in Workers |-> 0]
    /\ wmodels = [w \in Workers |-> <<>>]
    /\ taken = <<>>
    /\ chunk = <<>>
    /\ stage = "off"
    /\ fields = <<>>
    /\ fields_map = {}

Init == ParserInit(Files)

\* (mutant) the spawn loop ends after its first thread
SpawnLoopEndsAtOnce == spawned + 1 <= ncpus

\* the spawn loop of parse has come to the end of 0..num_cpus::get()
SpawnLoopEnds == spawned + 1 = ncpus

\* for _ in 0..num_cpus::get(): thread::spawn(move || worker.run())
Spawn ==
    /\ pc = "spawn"
    /\ spawned' = spawned + 1
    /\ wpc' = [wpc EXCEPT ![spawned + 1] = "steal"]
    /\ pc' = IF SpawnLoopEnds THEN "scan" ELSE "spawn"
    /\ UNCHANGED <<file, factory, ncpus, last_is_nl, last_nl_pos,
                   cur_position, workq, top, quits, joined, models, wtop,
                   wmodels, taken>>
    /\ UNCHANGED extractorvars

\* for byte in fmmap.iter(): one byte
ScanStep ==
    /\ pc = "scan"
    /\ LET st == [last_is_nl |-> last_is_nl, last_nl_pos |-> last_nl_pos,
                  cur_position |-> cur_position, pushed |-> <<>>]
           nx == ScanByte(st, file[cur_position + 1])
       IN  /\ last_is_nl' = nx.last_is_nl
           /\ last_nl_pos' = nx.last_nl_pos
           /\ cur_position' = nx.cur_position
           /\ workq' = workq \o nx.pushed
           /\ taken' = taken \o [i \in 1..Len(nx.pushed) |-> {}]
           /\ pc' = IF nx.cur_position = Len(file) THEN "quit" ELSE "scan"
    /\ UNCHANGED <<file, factory, ncpus, spawned, top, quits, joined,
                   models, wpc, wtop, wmodels>>
    /\ UNCHANGED extractorvars

\* (mutant) the Quit loop ends after its first push
QuitLoopEndsAtOnce == quits + 1 <= spawned

\* the Quit loop of parse has pushed to the end of 0..workers.len()
QuitLoopEnds == quits + 1 = spawned

\* for _ in 0..workers.len(): workq.push(Quit)
PushQuit ==
    /\ pc = "quit"
    /\ workq' = Append(workq, Quit)
    /\ taken' = Append(taken, {})
    /\ quits' = quits + 1
    /\ pc' = IF QuitLoopEnds THEN "join" ELSE "quit"
    /\ UNCHANGED <<file, factory, ncpus, last_is_nl, last_nl_pos,
                   cur_position, spawned, top, joined, models, wpc, wtop,
                   wmodels>>
    /\ UNCHANGED extractorvars

\* (mutant) the Err of join is dropped and the worker's list is taken
JoinIgnoresPanic(w) == FALSE

\* worker.join() returns Err for a thread that panicked, and unwrap()
\* panics on it
JoinPanics(w) == wpc[w] = "panicked"

\* (mutant) join returns the list of a thread that still runs
JoinReturnsAtOnce(w) == TRUE

\* worker.join() waits for the thread to end
JoinReturns(w) == wpc[w] \in {"exited", "panicked"}

\* for worker in workers: models.extend(worker.join().unwrap()...)
Join ==
    /\ pc = "join"
    /\ JoinReturns(joined + 1)
    /\ IF JoinPanics(joined + 1)
       THEN /\ pc' = "failed"
            /\ UNCHANGED <<joined, models>>
       ELSE /\ models' = models \o wmodels[joined + 1]
            /\ joined' = joined + 1
            /\ pc' = IF joined + 1 = spawned THEN "done" ELSE "join"
    /\ UNCHANGED <<file, factory, ncpus, last_is_nl, last_nl_pos,
                   cur_position, spawned, workq, top, quits, wpc, wtop,
                   wmodels, taken>>
    /\ UNCHANGED extractorvars

\* (mutant) Stolen::Empty | Stolen::Abort => break
BreakOnEmpty == "exited"

\* Stolen::Empty | Stolen::Abort => continue
Retry == "steal"

\* self.stealer.steal() begins: the stealer reads the deque's top and
\* bottom, and returns Stolen::Empty when nothing lies between them
StealRead(w) ==
    /\ wpc[w] = "steal"
    /\ IF top >= Len(workq)
       THEN /\ wpc' = [wpc EXCEPT ![w] = Retry]
            /\ UNCHANGED wtop
       ELSE /\ wtop' = [wtop EXCEPT ![w] = top]
            /\ wpc' = [wpc EXCEPT ![w] = "cas"]
    /\ UNCHANGED <<file, factory, ncpus, pc, last_is_nl, last_nl_pos,
                   cur_position, spawned, workq, top, quits, joined, models,
                   wmodels, taken>>
    /\ UNCHANGED extractorvars

\* what the Process arm of run computes from a chunk: whether parse_chunk
\* panics, and otherwise the map parse_fields returns
ChunkResult(bytes) ==
    [ panics |-> ChunkPanics(bytes),
      key_values |-> parse_fields(parse_chunk(bytes)) ]

\* the chunks the workers of the model can be given
FileChunks ==
    UNION {{Slice(f, r[2], r[3]) : r \in Range(Ranges(f))} :
               f \in Files \cup FairFiles}

\* ChunkResult tabulated over these chunks (it is a pure function of the
\* chunk, so each chunk is extracted once for all the states)
ChunkResults == {<<c, ChunkResult(c)>> : c \in FileChunks}

ResultOf(bytes) == (CHOOSE e \in ChunkResults : e[1] = bytes)[2]

\* (mutant) Stolen::Data(ChunkWorkerState::Quit) => continue
ContinueOnQuit == "steal"

\* Stolen::Data(ChunkWorkerState::Quit) => break
OnQuit == "exited"

\* (mutant) an empty map is skipped before the factory is asked
CollectSkipsEmpty(list, key_values) ==
    IF key_values = {} THEN list
    ELSE IF Accepts(factory, key_values) THEN Append(list, key_values)
         ELSE list

\* (mutant) a declined map is pushed as well
CollectDeclined(list, key_values) == Append(list, key_values)

\* if let Some(model) = P::new(key_values) { models.push(Arc::new(model)) }
Collect(list, key_values) ==
    IF Accepts(factory, key_values) THEN Append(list, key_values) ELSE list

\* the arm of the match in run for the task a steal returned
\* (what the worker becomes and what its models become)
RunTask(w, task) ==
    IF task = Quit
    THEN [wpc |-> OnQuit, models |-> wmodels[w]]
    ELSE LET bytes == Slice(file, task[2], task[3])
         IN  IF ResultOf(bytes).panics
             THEN [wpc |-> "panicked", models |-> wmodels[w]]
             ELSE LET key_values == ResultOf(bytes).key_values
                  IN  [ wpc |-> "steal",
                        models |-> Collect(wmodels[w], key_values) ]

\* (mutant) the steal takes the task it read whatever top has become
StealUnchecked(w) == TRUE

\* the steal takes the task at the top it read when no other stealer took
\* it meanwhile (its compare-and-swap of top succeeds)
StealSucceeds(w) == top = wtop[w]

\* (mutant) the stealer takes the task pushed last
StealIndexNewest(w) == Len(workq)

\* the stealer takes from the end opposite to the one push adds to: the
\* oldest task of the deque, at the top it read
StealIndex(w) == wtop[w] + 1

\* self.stealer.steal() ends: Stolen::Data(task) and the matching arm of
\* run, or Stolen::Abort => continue
StealTake(w) ==
    /\ wpc[w] = "cas"
    /\ IF StealSucceeds(w)
       THEN LET task == workq[StealIndex(w)]
                res == RunTask(w, task)
            IN  /\ top' = wtop[w] + 1
                /\ taken' = [taken EXCEPT ![StealIndex(w)] = @ \cup {w}]
                /\ wpc' = [wpc EXCEPT ![w] = res.wpc]
                /\ wmodels' = [wmodels EXCEPT ![w] = res.models]
       ELSE /\ wpc' = [wpc EXCEPT ![w] = Retry]
            /\ UNCHANGED <<top, taken, wmodels>>
    /\ wtop' = [wtop EXCEPT ![w] = 0]
    /\ UNCHANGED <<file, factory, ncpus, pc, last_is_nl, last_nl_pos,
                   cur_position, spawned, workq, quits, joined, models>>
    /\ UNCHANGED extractorvars

Orchestrator == Spawn \/ ScanStep \/ PushQuit \/ Join

Worker(w) == StealRead(w) \/ StealTake(w)

Next == Orchestrator \/ \E w \in Workers : Worker(w)

Spec == Init /\ [][Next]_vars

\* the threads are scheduled fairly: a thread that can take a step that
\* changes the state takes one
FairInit == ParserInit(FairFiles)

FairSpec ==
    /\ FairInit
    /\ [][Next]_vars
    /\ WF_vars(Orchestrator)
    /\ \A w \in Workers : WF_vars(Worker(w))

----------------------------------------------------------------------------
(* The field extractor on its own: parse_chunk, then parse_fields, applied *)
(* to a chunk, as in the Process arm of ChunkWorker::run.                  *)

ExtractorInit ==
    /\ chunk \in Chunks
    /\ stage = "raw"
    /\ fields = <<>>
    /\ fields_map = {}
    /\ file = <<NL>>
    /\ factory = AcceptAll
    /\ ncpus = 1
    /\ pc = "off"
    /\ last_is_nl = TRUE
    /\ last_nl_pos = 0
    /\ cur_position = 0
    /\ spawned = 0
    /\ workq = <<>>
    /\ top = 0
    /\ quits = 0
    /\ joined = 0
    /\ models = <<>>
    /\ wpc = [w \in Workers |-> "unspawned"]
    /\ wtop = [w \in Workers |-> 0]
    /\ wmodels = [w \in Workers |-> <<>>]
    /\ taken = <<>>

\* let fields = self.parse_chunk(&self.file[start..end])
DoParseChunk ==
    /\ stage = "raw"
    /\ IF ChunkPanics(chunk)
       THEN /\ stage' = "panicked"
            /\ UNCHANGED fields
       ELSE /\ stage' = "folded"
            /\ fields' = parse_chunk(chunk)
    /\ UNCHANGED <<chunk, fields_map>>
    /\ UNCHANGED parservars

\* self.parse_fields(fields)
DoParseFields ==
    /\ stage = "folded"
    /\ stage' = "mapped"
    /\ fields_map' = parse_fields(fields)
    /\ UNCHANGED <<chunk, fields>>
    /\ UNCHANGED parservars

ExtractorNext == DoParseChunk \/ DoParseFields

ExtractorSpec == ExtractorInit /\ [][ExtractorNext]_vars

----------------------------------------------------------------------------
(* Properties of Parser::parse. *)

\* the Process tasks pushed so far, in push order
Pushed == SelectSeq(workq, LAMBDA t : t # Quit)

\* the scan loop of parse has ended
ScanDone == pc \in {"quit", "join", "done", "failed"}

\* the Output a range gives, as a list of at most one element
OutputOf(f, bytes, task) ==
    LET key_values == parse_fields(parse_chunk(Slice(bytes, task[2], task[3])))
    IN  IF Accepts(f, key_values) THEN <<key_values>> ELSE <<>>

\* the Outputs of the ranges the scanner finds in a file, in file order
ExpectedOutputs(f, bytes) ==
    LET rs == Ranges(bytes)
    IN  Concat([i \in 1..Len(rs) |-> OutputOf(f, bytes, rs[i])])

\* C1: the block between the last boundary and the end of the file is
\* parsed as well: when parse returns with an accepting factory and the
\* file, valid UTF-8, does not end at a boundary, the result holds one
\* Output per range pushed and one more for the last block, made of that
\* block's fields.
C1_TrailingBlockParsed ==
    (/\ pc = "done"
     /\ factory = AcceptAll
     /\ BAD \notin Range(file)
     /\ last_nl_pos < Len(file)) =>
        /\ Len(models) = Len(Ranges(file)) + 1
        /\ parse_fields(parse_chunk(Slice(file, last_nl_pos, Len(file))))
               \in Range(models)

\* C2: once the scan has ended the ranges pushed, in push order, are a
\* partition of [0, file_length): the first starts at 0, each of the others
\* starts where the one before it ended, and the last ends at file_length.
C2_RangesPartitionFile ==
    ScanDone =>
        /\ Pushed # <<>>
        /\ Pushed[1][2] = 0
        /\ \A i \in 1..(Len(Pushed) - 1) : Pushed[i + 1][2] = Pushed[i][3]
        /\ Pushed[Len(Pushed)][3] = Len(file)

\* C3: the multiset of Outputs parse returns is the one a sequential pass
\* over the file's ranges gives: it depends on the file and the factory
\* only, not on the number of workers or on the order of their steals.
C3_SameMultisetForEveryRun ==
    pc = "done" => SameMultiset(models, ExpectedOutputs(factory, file))

\* C3 witness: two workers both contributed and the result is not in file
\* order.
C3_Witness ==
    /\ pc = "done"
    /\ ncpus >= 2
    /\ wmodels[1] # <<>>
    /\ wmodels[2] # <<>>
    /\ models # ExpectedOutputs(factory, file)

\* C4: no Process task is pushed after a Quit task, never more Quit tasks
\* are pushed than workers were spawned, and when the Quit loop has ended
\* there are exactly as many Quit tasks as workers.
C4_QuitsAfterProcessOnePerWorker ==
    /\ \A i, j \in 1..Len(workq) : (i < j /\ workq[i] = Quit) => workq[j] = Quit
    /\ Count(Quit, workq) <= spawned
    /\ pc \in {"join", "done", "failed"} =>
           (Count(Quit, workq) = spawned /\ spawned = ncpus)

\* C4 witness: the Quit tasks of two workers lie behind a Process task.
C4_Witness ==
    /\ pc = "join"
    /\ ncpus >= 2
    /\ Pushed # <<>>
    /\ Count(Quit, workq) = ncpus

\* the number of Quit tasks worker w consumed
QuitsConsumed(w) ==
    Cardinality({i \in 1..Len(workq) : workq[i] = Quit /\ w \in taken[i]})

RECURSIVE SumQuits(_)
SumQuits(n) == IF n = 0 THEN 0 ELSE QuitsConsumed(n) + SumQuits(n - 1)

\* C5: a worker has left its loop normally exactly when it has consumed a
\* Quit, and it never consumes a second one; when every worker has left
\* normally the Quit tasks consumed are as many as the workers and no Quit
\* is left in the queue.
C5_ExitOnlyByOneQuit ==
    /\ \A w \in Workers :
           /\ QuitsConsumed(w) <= 1
           /\ (wpc[w] = "exited") <=> (QuitsConsumed(w) = 1)
    /\ (spawned = ncpus /\ \A w \in 1..ncpus : wpc[w] = "exited") =>
           /\ SumQuits(ncpus) = ncpus
           /\ Quit \notin Range(InQueue)
           /\ InQueue = <<>>

\* C5 witness: two workers have both left by a Quit after Process tasks
\* were in the queue.
C5_Witness ==
    /\ ncpus >= 2
    /\ \A w \in 1..ncpus : wpc[w] = "exited"
    /\ Pushed # <<>>

\* every thread of the call has ended
AllEnded == \A w \in 1..ncpus : wpc[w] \in {"exited", "panicked"}

\* C6: under fair scheduling parse ends, by returning or by failing, and
\* every worker ends.
C6_ParseTerminates ==
    /\ <>(pc \in {"done", "failed"})
    /\ <>(spawned = ncpus /\ AllEnded)

\* C6 witness: parse has returned the results of two workers.
C6_Witness ==
    /\ pc = "done"
    /\ ncpus >= 2
    /\ joined = ncpus
    /\ Len(models) >= 2

RECURSIVE OutputsFrom(_, _)
\* the Outputs of the accepted ranges among the tasks i.. that w took
OutputsFrom(w, i) ==
    IF i > Len(workq) THEN <<>>
    ELSE (IF w \in taken[i] /\ workq[i] # Quit
          THEN OutputOf(factory, file, workq[i]) ELSE <<>>)
             \o OutputsFrom(w, i + 1)

\* C7: no task is taken by two workers; as long as no worker panicked each
\* worker's list holds exactly one Output for each accepted range it took
\* and nothing else; and when parse returns every pushed range has been
\* taken by exactly one worker and the result is the workers' lists, so it
\* holds one Output per accepted range and none for a declined one.
C7_EachRangeOnce ==
    /\ \A i \in 1..Len(workq) : Cardinality(taken[i]) <= 1
    /\ \A w \in Workers :
           wpc[w] # "panicked" => wmodels[w] = OutputsFrom(w, 1)
    /\ pc = "done" =>
           /\ \A i \in 1..Len(workq) : Cardinality(taken[i]) = 1
           /\ models = Concat([w \in 1..ncpus |-> OutputsFrom(w, 1)])
           /\ Len(models) =
                  Cardinality({i \in 1..Len(Pushed) :
                                   OutputOf(factory, file, Pushed[i]) # <<>>})

\* C7 witness: parse returned after the factory declined one range and
\* accepted another.
C7_Witness ==
    /\ pc = "done"
    /\ factory = NeedsA
    /\ ncpus >= 2
    /\ models # <<>>
    /\ Len(models) < Len(Pushed)

\* C8: parse never returns a list when a worker panicked; under fair
\* scheduling a worker's panic leads to the failure of the call, with
\* every worker ended; and the call fails only in the join of a worker
\* that panicked.
C8_WorkerPanicFailsParse ==
    /\ [](pc = "done" => \A w \in Workers : wpc[w] # "panicked")
    /\ (\E w \in Workers : wpc[w] = "panicked") ~> (pc = "failed" /\ AllEnded)
    /\ [][(pc # "failed" /\ pc' = "failed") => wpc[joined + 1] = "panicked"]_vars

\* C8 witness: the call failed on a panicked worker while another worker
\* had left by its Quit.
C8_Witness ==
    /\ pc = "failed"
    /\ \E w \in Workers : wpc[w] = "panicked"
    /\ \E w \in Workers : wpc[w] = "exited"

----------------------------------------------------------------------------
(* Properties of the field extractor. *)

\* the line has a delimiter
HasDelim(line) == Find(line, COLON) # 0

\* the trimmed text before the first delimiter of a line that has one
KeyOf(line) == Trim(SubSeq(line, 1, Find(line, COLON) - 1))

\* the text after the first delimiter, leading delimiters removed
AfterDelim(line) ==
    TrimStartMatches(SubSeq(line, Find(line, COLON), Len(line)), COLON)

\* the trimmed text after the delimiter
ValueOf(line) == Trim(AfterDelim(line))

\* the physical lines of the chunk that are not empty
PhysLines == SelectSeq(Lines(chunk), LAMBDA l : l # <<>>)

\* C9: the field map has one entry per key, and for every logical line
\* with a delimiter the map gives its trimmed key the value of the last
\* logical line of the block that has this key.
C9_LastWriteWins ==
    stage = "mapped" =>
        /\ \A e1, e2 \in fields_map : e1[1] = e2[1] => e1 = e2
        /\ \A i \in 1..Len(fields) :
               HasDelim(fields[i]) =>
                   LET same == {j \in 1..Len(fields) :
                                    /\ HasDelim(fields[j])
                                    /\ KeyOf(fields[j]) = KeyOf(fields[i])}
                       last == CHOOSE j \in same : \A k \in same : k <= j
                   IN  /\ KeyOf(fields[i]) \in Keys(fields_map)
                       /\ Get(fields_map, KeyOf(fields[i])) = ValueOf(fields[last])

\* C9 witness: "A: 1\nA: 2\n\n" has given A -> 2.
C9_Witness ==
    /\ stage = "mapped"
    /\ chunk = <<"A", ":", " ", "1", NL, "A", ":", " ", "2", NL, NL>>
    /\ fields_map = {<< <<"A">>, <<"2">> >>}

\* physical line i is a 'Key: Value' line followed by exactly one
\* continuation line, and no later logical line has its key
FoldedPair(i) ==
    LET a == PhysLines[i]
        b == PhysLines[i + 1]
    IN  /\ a[1] # SP
        /\ HasDelim(a)
        /\ b[1] = SP
        /\ i + 2 <= Len(PhysLines) => PhysLines[i + 2][1] # SP
        /\ \A j \in (i + 2)..Len(PhysLines) :
               LET c == PhysLines[j]
               IN  (c[1] # SP /\ HasDelim(c)) => KeyOf(c) # KeyOf(a)

\* C10: a line that starts with a space and follows a 'Key: Value' line is
\* folded into its value: the value is the text after the delimiter, a
\* line break and the whole continuation line, trimmed at its two ends
\* only; "A: 1\n x\n\n" gives the one entry A -> "1\n x".
C10_ContinuationFolded ==
    stage = "mapped" =>
        /\ \A i \in 1..(Len(PhysLines) - 1) :
               FoldedPair(i) =>
                   LET a == PhysLines[i]
                       b == PhysLines[i + 1]
                   IN  /\ KeyOf(a) \in Keys(fields_map)
                       /\ Get(fields_map, KeyOf(a)) =
                              Trim(AfterDelim(a) \o <<NL>> \o b)
        /\ chunk = <<"A", ":", " ", "1", NL, " ", "x", NL, NL>> =>
               fields_map = {<< <<"A">>, <<"1", NL, " ", "x">> >>}

\* C10 witness: "A: 1\n x\n\n" has given A -> "1\n x".
C10_Witness ==
    /\ stage = "mapped"
    /\ chunk = <<"A", ":", " ", "1", NL, " ", "x", NL, NL>>
    /\ Len(fields) = 1
    /\ Get(fields_map, <<"A">>) = <<"1", NL, " ", "x">>

\* parse_chunk has returned the logical lines of the chunk
Folded == stage \in {"folded", "mapped"}

\* the lines with a line break between each two of them
Joined(lines) ==
    Concat([i \in 1..Len(lines) |->
                IF i = 1 THEN lines[i] ELSE <<NL>> \o lines[i]])

\* C11 (as claimed): when the first non-empty line starts with neither a
\* space nor a tab, the logical lines are as many as the non-empty
\* physical lines that start with neither a space nor a tab.
C11_SpaceOrTabFolds ==
    (Folded /\ PhysLines # <<>> /\ PhysLines[1][1] \notin {SP, TAB}) =>
        Len(fields) =
            Cardinality({i \in 1..Len(PhysLines) :
                             PhysLines[i][1] \notin {SP, TAB}})

\* C11 (amended): only a space makes a continuation line.  When the first
\* non-empty line does not start with a space, the logical lines are as
\* many as the non-empty physical lines that do not start with a space (a
\* line that starts with a tab starts a logical line), and the logical
\* lines are the non-empty physical lines in order, a line break inserted
\* before each folded line.
C11_SpaceFolds ==
    (Folded /\ PhysLines # <<>> /\ PhysLines[1][1] # SP) =>
        /\ Len(fields) =
               Cardinality({i \in 1..Len(PhysLines) : PhysLines[i][1] # SP})
        /\ \A k \in 1..Len(fields) : fields[k][1] # SP
        /\ Joined(fields) = Joined(PhysLines)

\* C11 witness: "A: 1\n x\n\tx" has given two logical lines, the second
\* one the line that starts with a tab.
C11_Witness ==
    /\ stage = "folded"
    /\ chunk = <<"A", ":", " ", "1", NL, " ", "x", NL, TAB, "x">>
    /\ fields = << <<"A", ":", " ", "1", NL, " ", "x">>, <<TAB, "x">> >>

\* C12: a logical line without a delimiter gives no entry and no error and
\* leaves the other entries alone: the field map is the map of the
\* logical lines that have a delimiter, each entry comes from such a line,
\* only a line that is not UTF-8 makes the extraction fail, and
\* "A: 1\ns\n\n" gives exactly A -> 1.
C12_NoDelimiterNoEntry ==
    /\ stage = "panicked" => BAD \in Range(chunk)
    /\ stage = "mapped" =>
           /\ fields_map = parse_fields(SelectSeq(fields, HasDelim))
           /\ \A e \in fields_map :
                  \E i \in 1..Len(fields) :
                      /\ HasDelim(fields[i])
                      /\ e = <<KeyOf(fields[i]), ValueOf(fields[i])>>
           /\ chunk = <<"A", ":", " ", "1", NL, "s", NL, NL>> =>
                  fields_map = {<< <<"A">>, <<"1">> >>}

\* C12 witness: "A: 1\ns\n\n" has two logical lines and has given the one
\* entry A -> 1.
C12_Witness ==
    /\ stage = "mapped"
    /\ chunk = <<"A", ":", " ", "1", NL, "s", NL, NL>>
    /\ Len(fields) = 2
    /\ ~HasDelim(fields[2])
    /\ fields_map = {<< <<"A">>, <<"1">> >>}

\* the trimmed text after the first delimiter, with that one delimiter
\* removed and every later one kept
ValueAfterFirst(line) ==
    Trim(SubSeq(line, Find(line, COLON) + 1, Len(line)))

\* C13: a logical line with a delimiter is split at the first one only: the
\* key is the trimmed text before it, the value the trimmed text after it
\* with that one delimiter removed, further delimiters staying in the value
\* (the value of a key being the one of the last logical line with the key).
C13_SplitAtFirstDelimiterOnly ==
    stage = "mapped" =>
        \A i \in 1..Len(fields) :
            HasDelim(fields[i]) =>
                LET same == {j \in 1..Len(fields) :
                                 /\ HasDelim(fields[j])
                                 /\ KeyOf(fields[j]) = KeyOf(fields[i])}
                    last == CHOOSE j \in same : \A k \in same : k <= j
                IN  /\ KeyOf(fields[i]) \in Keys(fields_map)
                    /\ Get(fields_map, KeyOf(fields[i])) =
                           ValueAfterFirst(fields[last])

\* a worker thread runs: it has been spawned and has not ended
Running(w) == wpc[w] \in {"steal", "cas"}

\* C14 (as the specification states it): no worker is spawned before the
\* scan over the bytes of the file has ended.
C14_ScanBeforeWorkers ==
    (\E w \in 1..ncpus : wpc[w] # "unspawned") => ScanDone

\* C14 (amended): every worker is spawned before the first byte is scanned
\* and runs during the scan; a worker takes only tasks the scanner has
\* pushed already, and no worker ends before the scan has ended.
C14_WorkersBeforeScan ==
    /\ pc = "spawn" => (cur_position = 0 /\ workq = <<>> /\ spawned < ncpus)
    /\ pc # "spawn" => spawned = ncpus
    /\ \A w \in 1..ncpus : (wpc[w] # "unspawned") <=> (w <= spawned)
    /\ top <= Len(workq)
    /\ ~ScanDone =>
           /\ Pushed = workq
           /\ \A w \in 1..spawned : Running(w) \/ wpc[w] = "panicked"

\* C14 witness: the scan is under way and a worker has already taken a
\* range.
C14_Witness ==
    /\ pc = "scan"
    /\ 0 < cur_position
    /\ cur_position < Len(file)
    /\ top > 0
    /\ \E w \in 1..ncpus : Running(w)

\* C15 (as the specification states it): nothing is appended to the final
\* list until every worker has been joined, and never while a worker runs.
C15_MergeAfterAllJoined ==
    models # <<>> =>
        (joined = spawned /\ \A w \in 1..ncpus : ~Running(w))

\* C15 (amended): a worker's list is appended to the final list when this
\* worker has been joined, hence has ended, in the order of the joins; the
\* final list is empty before the join loop and holds the lists of the
\* joined workers and nothing else.
C15_MergeAfterOwnJoin ==
    /\ models = Concat([w \in 1..joined |-> wmodels[w]])
    /\ \A w \in 1..joined : wpc[w] = "exited"
    /\ pc \in {"spawn", "scan", "quit"} => (joined = 0 /\ models = <<>>)

\* C15 witness: the list of the first worker is in the final list while
\* the second worker still runs.
C15_Witness ==
    /\ pc = "join"
    /\ joined = 1
    /\ models # <<>>
    /\ ncpus = 2
    /\ Running(2)

\* the file has no blank line: no two consecutive line breaks
NoBlankLine ==
    \A p \in 1..(Len(file) - 1) : ~(file[p] = NL /\ file[p + 1] = NL)

\* C16: for a file without a blank line the scanner pushes exactly one
\* range, the whole file [0, file_length).
C16_OneRangeWithoutBlankLine ==
    (ScanDone /\ NoBlankLine) => Pushed = <<Process(0, Len(file))>>

\* the positions where the scanner has closed a range
RangeEnds == {Pushed[i][3] : i \in 1..Len(Pushed)}

\* C17 (as the specification states it): a range is closed at p exactly
\* when the two bytes before p are both line breaks; a line break as the
\* first byte closes none.
C17_BoundaryAfterTwoBreaks ==
    ScanDone =>
        RangeEnds = {p \in 2..Len(file) :
                         file[p] = NL /\ file[p - 1] = NL}

\* C17 (amended): a range is closed at p (and the next opened at p) exactly
\* when the byte before p is a line break that is the first byte of the
\* file or follows a line break; this holds of the bytes scanned so far at
\* every moment of the scan, and the ranges follow one another from 0.
C17_BoundaryAfterBreakAtLineStart ==
    /\ RangeEnds = {p \in 1..cur_position :
                        file[p] = NL /\ (p = 1 \/ file[p - 1] = NL)}
    /\ \A i \in 1..Len(Pushed) :
           /\ Pushed[i][2] = (IF i = 1 THEN 0 ELSE Pushed[i - 1][3])
           /\ Pushed[i][2] < Pushed[i][3]
    /\ last_nl_pos = (IF Pushed = <<>> THEN 0 ELSE Pushed[Len(Pushed)][3])

\* C17 witness: the file starts with a line break followed by a field, and
\* the scanner has closed the range [0, 1) at that line break.
C17_Witness ==
    /\ ScanDone
    /\ Len(file) > 1
    /\ file[1] = NL
    /\ file[2] # NL
    /\ Pushed # <<>>
    /\ Pushed[1] = Process(0, 1)

\* the first non-empty physical line of the chunk starts with a space or a
\* tab
OrphanFirst == PhysLines # <<>> /\ PhysLines[1][1] \in {SP, TAB}

\* C18 (as the specification states it): a first non-empty line starting
\* with a space or a tab is dropped: no LogicalLine starts with it and,
\* when it is the only line, there is no entry.
C18_OrphanDropped ==
    OrphanFirst =>
        /\ Folded => (fields = <<>> \/ fields[1][1] \notin {SP, TAB})
        /\ (stage = "mapped" /\ Len(PhysLines) = 1) => fields_map = {}

\* C18 (amended): a first non-empty line starting with a space or a tab is
\* kept: it starts the first LogicalLine, and when it has a delimiter its
\* trimmed key has an entry in the field map.
C18_OrphanKept ==
    OrphanFirst =>
        /\ Folded =>
               /\ fields # <<>>
               /\ Len(fields[1]) >= Len(PhysLines[1])
               /\ SubSeq(fields[1], 1, Len(PhysLines[1])) = PhysLines[1]
        /\ (stage = "mapped" /\ HasDelim(PhysLines[1])) =>
               /\ KeyOf(PhysLines[1]) \in Keys(fields_map)
               /\ Len(PhysLines) = 1 =>
                      fields_map =
                          {<<KeyOf(PhysLines[1]), ValueOf(PhysLines[1])>>}

\* C18 witness: the chunk " C:3" has given C -> 3.
C18_Witness ==
    /\ stage = "mapped"
    /\ chunk = <<SP, "C", ":", "3">>
    /\ fields = << <<SP, "C", ":", "3">> >>
    /\ fields_map = {<< <<"C">>, <<"3">> >>}

\* the pushed ranges that hold line breaks only
BreaksOnly ==
    {i \in 1..Len(Pushed) :
         \A b \in Range(Slice(file, Pushed[i][2], Pushed[i][3])) : b = NL}

\* the pushed ranges whose field map is empty
EmptyMapped ==
    {i \in 1..Len(Pushed) :
         ResultOf(Slice(file, Pushed[i][2], Pushed[i][3])).key_values = {}}

\* C19: a range of line breaks only is processed like any other: it is
\* taken by a worker, parsed to the empty field map and given to the
\* factory, whose answer alone decides: when parse returns, the result
\* holds the empty Output once per range with an empty map if the factory
\* accepts the empty map, and not at all if it declines it.
C19_EmptyRangesReachFactory ==
    /\ \A i \in BreaksOnly : i \in EmptyMapped
    /\ pc = "done" =>
           /\ \A i \in BreaksOnly : taken[i] # {}
           /\ Count({}, models) =
                  (IF Accepts(factory, {}) THEN Cardinality(EmptyMapped)
                   ELSE 0)

\* C19 witness: "A:1\n\n\n" has the range [5, 6) of one line break, and
\* the accepting factory has made an Output of its empty map.
C19_Witness ==
    /\ pc = "done"
    /\ factory = AcceptAll
    /\ file = <<"A", ":", "1", NL, NL, NL>>
    /\ Pushed = <<Process(0, 5), Process(5, 6)>>
    /\ BreaksOnly = {2}
    /\ Count({}, models) = 1

\* C20: the tasks leave the queue in the order of their pushes: at every
\* moment the tasks taken are the first ones pushed; so once a Quit has
\* been taken every Process task has been taken, and when parse returns
\* no task is left in the queue.
C20_TasksLeaveInPushOrder ==
    /\ Len(taken) = Len(workq)
    /\ \A i \in 1..Len(workq) : (taken[i] # {}) <=> (i <= top)
    /\ (\E i \in 1..Len(workq) : workq[i] = Quit /\ taken[i] # {}) =>
           /\ pc \in {"quit", "join", "done", "failed"}
           /\ \A j \in 1..Len(workq) : workq[j] # Quit => taken[j] # {}
    /\ pc = "done" => (InQueue = <<>> /\ top = Len(workq))

\* C20 witness: two ranges were pushed, both have been taken, the first
\* Quit has just been taken and the second is still in the queue.
C20_Witness ==
    /\ ncpus = 2
    /\ Len(Pushed) = 2
    /\ top = 3
    /\ workq[3] = Quit
    /\ taken[3] # {}
    /\ InQueue = <<Quit>>

====
